---- MODULE Spec2Model ----
(***************************************************************************)
(* A model of synapse/http/replicationagent.py (ReplicationEndpointFactory *)
(* and ReplicationAgent) and of the profile store in                       *)
(* synapse/storage/databases/main/profile.py.                              *)
(*                                                                         *)
(* Spec        : one ReplicationAgent, its connection pool and the         *)
(*               requests issued through it.                               *)
(* ProfileSpec : one ProfileWorkerStore over the "profiles" table.         *)
(***************************************************************************)
EXTENDS Integers, Sequences, FiniteSets, TLC

VARIABLES
    connectTimeout,   \* ReplicationAgent.__init__ argument: <<>> is None, <<t>> is t
    bindAddress,      \* ReplicationAgent.__init__ argument (None or an address)
    contextFactory,   \* the IPolicyForHTTPS: the hosts whose lookup it fails for
    connections,      \* the pool's idle connections, oldest first: [key, conn]
    nextConn,         \* number of connections opened so far
    calls,            \* one record per call of ReplicationAgent.request
    profiles,         \* the "profiles" table: localpart -> row (or NoRow)
    lastSet,          \* history: the values most recently written per localpart
    lastResult        \* what the last profile-store call returned or raised

agentVars == <<connectTimeout, bindAddress, contextFactory, connections, nextConn, calls>>
profileVars == <<profiles, lastSet, lastResult>>
vars == <<connectTimeout, bindAddress, contextFactory, connections, nextConn, calls,
          profiles, lastSet, lastResult>>

None == "None"

(***************************************************************************)
(* Bounds and input sets                                                   *)
(***************************************************************************)
MaxRequests == 2

Schemes == {"http", "https", "ftp"}
Hosts == {"a.example", "b.example"}
NoPort == ""
PortTexts == {NoPort, "80"}
PortNumbers == {80, 443}
Paths == {"/path/a", "/%2Frun%2Fmain.sock/path/b"}
Timeouts == {<<>>, <<5>>}
BindAddresses == {None, "10.0.0.1"}
Policies == {{}, {"b.example"}}
Deliveries == {"response", "ConnectionError", "ProtocolError"}

\* The raw URIs handed to request: scheme "://" authority path.
RawURIs == [scheme : Schemes, hostText : Hosts, portText : PortTexts, path : Paths]

(***************************************************************************)
(* twisted.web.client.URI.fromBytes, as called by request                  *)
(***************************************************************************)
\* The authority exactly as it is written in the URI.
Netloc(raw) ==
    IF raw.portText = NoPort THEN raw.hostText
    ELSE raw.hostText \o ":" \o raw.portText

\* int(port) on the text after the last ":".
IntOf(text) == CHOOSE p \in PortNumbers : ToString(p) = text

DefaultPort(scheme) == IF scheme = "https" THEN 443 ELSE 80

fromBytes(raw) ==
    [scheme |-> raw.scheme,
     netloc |-> Netloc(raw),
     host   |-> raw.hostText,
     port   |-> IF raw.portText = NoPort THEN DefaultPort(raw.scheme)
                ELSE IntOf(raw.portText),
     path   |-> raw.path]

(***************************************************************************)
(* ReplicationEndpointFactory                                              *)
(***************************************************************************)
\* HostnameEndpoint(self.reactor, uri.host, uri.port): the factory passes
\* neither a timeout nor a bind address, so the endpoint has the defaults.
DefaultEndpointTimeout == 30

HostnameEndpoint(host, port) ==
    [kind |-> "tcp", host |-> host, port |-> port,
     timeout |-> DefaultEndpointTimeout, bindAddress |-> None]

\* self.context_factory.creatorForNetloc(host, port): raises for the hosts the
\* policy fails for, and otherwise returns the creator for (host, port).
creatorFails(policy, host) == host \in policy

creatorForNetloc(host, port) == [host |-> host, port |-> port]

\* wrapClientTLS handing back the endpoint it was given.
wrapClientTLS_Unwrapped(creator, endpoint) == endpoint

wrapClientTLS(creator, endpoint) ==
    [kind |-> "tls", creator |-> creator, wrapped |-> endpoint]

NoEndpoint == [kind |-> "none"]

NoError == [type |-> None, scheme |-> None]
SchemeNotSupported(scheme) == [type |-> "SchemeNotSupported", scheme |-> scheme]
TLSPolicyError == [type |-> "TLSPolicyError", scheme |-> None]

\* endpointForURI without its scheme test: whatever is not https gets a
\* plain TCP endpoint.
endpointForURI_AnyScheme(policy, uri) ==
    LET endpoint == HostnameEndpoint(uri.host, uri.port) IN
    IF uri.scheme = "https"
    THEN IF creatorFails(policy, uri.host)
         THEN [raised |-> TLSPolicyError, endpoint |-> NoEndpoint, built |-> 1,
               lookups |-> << <<uri.host, uri.port>> >>]
         ELSE [raised |-> NoError,
               endpoint |-> wrapClientTLS(creatorForNetloc(uri.host, uri.port),
                                          endpoint),
               built |-> 1,
               lookups |-> << <<uri.host, uri.port>> >>]
    ELSE [raised |-> NoError, endpoint |-> endpoint, built |-> 1, lookups |-> <<>>]

\* endpointForURI constructing the HostnameEndpoint before it tests the scheme.
endpointForURI_EagerEndpoint(policy, uri) ==
    LET endpoint == HostnameEndpoint(uri.host, uri.port) IN
    IF uri.scheme \in {"http", "https"}
    THEN IF uri.scheme = "https"
         THEN IF creatorFails(policy, uri.host)
              THEN [raised |-> TLSPolicyError, endpoint |-> NoEndpoint, built |-> 1,
                    lookups |-> << <<uri.host, uri.port>> >>]
              ELSE [raised |-> NoError,
                    endpoint |-> wrapClientTLS(creatorForNetloc(uri.host, uri.port),
                                               endpoint),
                    built |-> 1,
                    lookups |-> << <<uri.host, uri.port>> >>]
         ELSE [raised |-> NoError, endpoint |-> endpoint, built |-> 1,
               lookups |-> <<>>]
    ELSE [raised |-> SchemeNotSupported(uri.scheme), endpoint |-> NoEndpoint,
          built |-> 1, lookups |-> <<>>]

\* The outcome of one call: the endpoint returned (or the exception raised),
\* the endpoints constructed and the TLS policy lookups made on the way.
endpointForURI(policy, uri) ==
    IF uri.scheme \in {"http", "https"}
    THEN LET endpoint == HostnameEndpoint(uri.host, uri.port) IN
         IF uri.scheme = "https"
         THEN IF creatorFails(policy, uri.host)
              THEN [raised |-> TLSPolicyError, endpoint |-> NoEndpoint, built |-> 1,
                    lookups |-> << <<uri.host, uri.port>> >>]
              ELSE [raised |-> NoError,
                    endpoint |-> wrapClientTLS(creatorForNetloc(uri.host, uri.port),
                                               endpoint),
                    built |-> 1,
                    lookups |-> << <<uri.host, uri.port>> >>]
         ELSE [raised |-> NoError, endpoint |-> endpoint, built |-> 1,
               lookups |-> <<>>]
    ELSE [raised |-> SchemeNotSupported(uri.scheme), endpoint |-> NoEndpoint,
          built |-> 0, lookups |-> <<>>]

(***************************************************************************)
(* ReplicationAgent                                                        *)
(***************************************************************************)
\* A key that leaves the host out.
PoolKey_NoHost(uri) == <<uri.scheme, ToString(uri.port)>>

\* A key over the whole origin, path included.
PoolKey_WithPath(uri) == <<uri.scheme, uri.netloc \o uri.path>>

\* key = (parsedURI.scheme, parsedURI.netloc)
PoolKey(uri) == <<uri.scheme, uri.netloc>>

NoConn == 0

\* The pool's idle connections stored under a key.
IdleFor(key) == {i \in 1..Len(connections) : connections[i].key = key}

Remove(seq, i) == SubSeq(seq, 1, i - 1) \o SubSeq(seq, i + 1, Len(seq))

\* request(method, uri): parse, resolve the endpoint, compute the key and
\* hand over to _requestWithEndpoint, which takes a connection from the pool
\* (an idle one stored under the key, or a new one made with the endpoint)
\* and returns the Deferred of the response.
request(raw) ==
    /\ Len(calls) < MaxRequests
    /\ LET parsedURI == fromBytes(raw)
           res == endpointForURI(contextFactory, parsedURI)
           base == [uri |-> parsedURI, built |-> res.built, lookups |-> res.lookups,
                    endpoint |-> res.endpoint, keys |-> <<>>, executed |-> 0,
                    conn |-> NoConn, reused |-> FALSE,
                    returned |-> "deferred", state |-> "failed",
                    error |-> res.raised, fired |-> None]
       IN
       IF res.raised.type = "SchemeNotSupported"
       THEN \* return defer.fail(Failure())
            /\ calls' = Append(calls, base)
            /\ UNCHANGED <<connections, nextConn>>
       ELSE IF res.raised # NoError
       THEN \* not a SchemeNotSupported: the exception leaves request
            /\ calls' = Append(calls, [base EXCEPT !.returned = "raised",
                                                   !.state = "raised"])
            /\ UNCHANGED <<connections, nextConn>>
       ELSE LET key == PoolKey(parsedURI)
                pending == [base EXCEPT !.keys = <<key>>, !.executed = 1,
                                        !.state = "pending"]
            IN
            \/ \E i \in IdleFor(key) :
                  /\ \A j \in IdleFor(key) : i <= j
                  /\ calls' = Append(calls, [pending EXCEPT !.conn = connections[i].conn,
                                                            !.reused = TRUE])
                  /\ connections' = Remove(connections, i)
                  /\ UNCHANGED nextConn
            \/ /\ IdleFor(key) = {}
               /\ calls' = Append(calls, [pending EXCEPT !.conn = nextConn + 1])
               /\ nextConn' = nextConn + 1
               /\ UNCHANGED connections
    /\ UNCHANGED <<connectTimeout, bindAddress, contextFactory>>
    /\ UNCHANGED profileVars

\* deliver with a retry: after a ConnectionError the agent asks the executor
\* again, on a new connection.
deliver_Retry(i, outcome, keep) ==
    /\ i \in 1..Len(calls)
    /\ calls[i].state = "pending"
    /\ IF outcome = "response"
       THEN /\ calls' = [calls EXCEPT ![i].state = "response", ![i].fired = outcome]
            /\ connections' = IF keep
                              THEN Append(connections,
                                          [key |-> calls[i].keys[1], conn |-> calls[i].conn])
                              ELSE connections
            /\ UNCHANGED nextConn
       ELSE IF outcome = "ConnectionError" /\ calls[i].executed < 2
       THEN /\ ~keep
            /\ calls' = [calls EXCEPT ![i].executed = @ + 1, ![i].conn = nextConn + 1]
            /\ nextConn' = nextConn + 1
            /\ UNCHANGED connections
       ELSE /\ ~keep
            /\ calls' = [calls EXCEPT ![i].state = "failed", ![i].fired = outcome,
                                      ![i].error = [type |-> outcome, scheme |-> None]]
            /\ UNCHANGED <<connections, nextConn>>
    /\ UNCHANGED <<connectTimeout, bindAddress, contextFactory>>
    /\ UNCHANGED profileVars

\* The executor's Deferred fires: with the response, after which the pool may
\* keep the connection under the request's key, or with the failure of the
\* connection attempt or of the exchange.
deliver(i, outcome, keep) ==
    /\ i \in 1..Len(calls)
    /\ calls[i].state = "pending"
    /\ IF outcome = "response"
       THEN /\ calls' = [calls EXCEPT ![i].state = "response", ![i].fired = outcome]
            /\ connections' = IF keep
                              THEN Append(connections,
                                          [key |-> calls[i].keys[1], conn |-> calls[i].conn])
                              ELSE connections
       ELSE /\ ~keep
            /\ calls' = [calls EXCEPT ![i].state = "failed", ![i].fired = outcome,
                                      ![i].error = [type |-> outcome, scheme |-> None]]
            /\ UNCHANGED connections
    /\ UNCHANGED <<connectTimeout, bindAddress, contextFactory, nextConn>>
    /\ UNCHANGED profileVars

\* cachedConnectionTimeout: the pool drops an idle connection.
dropIdle(i) ==
    /\ i \in 1..Len(connections)
    /\ connections' = Remove(connections, i)
    /\ UNCHANGED <<connectTimeout, bindAddress, contextFactory, nextConn, calls>>
    /\ UNCHANGED profileVars

(***************************************************************************)
(* ProfileWorkerStore over the "profiles" table                            *)
(***************************************************************************)
Localparts == {"alice", "bob"}
DisplayNames == {None, "Alice", "Al"}
AvatarUrls == {None, "mxc://example.org/a"}
\* The StoreErrors of a lookup: 0 stands for no error.
NoRowFound == 404
MoreThanOneRow == 500
LookupErrors == {0, MoreThanOneRow}

\* user_id.to_string()
to_string(localpart) == "@" \o localpart \o ":example.org"

Rows(table, localpart) == {r \in table : r.user_id = localpart}

NoProfile == [display_name |-> None, avatar_url |-> None]

\* db_pool.simple_select_one(table, keyvalues, retcols): the one row that
\* matches, StoreError(404) when no row does.
simple_select_one(table, localpart) ==
    IF Rows(table, localpart) = {}
    THEN [raised |-> NoRowFound,
          row |-> [user_id |-> localpart, displayname |-> None,
                   avatar_url |-> None, full_user_id |-> None]]
    ELSE IF Cardinality(Rows(table, localpart)) > 1
    THEN [raised |-> MoreThanOneRow,
          row |-> [user_id |-> localpart, displayname |-> None,
                   avatar_url |-> None, full_user_id |-> None]]
    ELSE [raised |-> 0, row |-> CHOOSE r \in Rows(table, localpart) : TRUE]

\* db_pool.simple_insert(table, values): a new row, the columns that are not
\* given being NULL; user_id is UNIQUE, so a second row is an IntegrityError
\* and the table is left as it was.
simple_insert(table, localpart, full_user_id) ==
    IF Rows(table, localpart) # {}
    THEN table
    ELSE table \cup {[user_id |-> localpart, displayname |-> None,
                      avatar_url |-> None, full_user_id |-> full_user_id]}

\* db_pool.simple_upsert(table, keyvalues, values): the row matching keyvalues
\* gets the given values and keeps its other columns; when there is no such
\* row, one is inserted from keyvalues and values.
simple_upsert(table, localpart, column, value, full_user_id) ==
    LET old == IF Rows(table, localpart) = {}
               THEN [user_id |-> localpart, displayname |-> None,
                     avatar_url |-> None, full_user_id |-> None]
               ELSE CHOOSE r \in Rows(table, localpart) : TRUE
        new == IF column = "displayname"
               THEN [old EXCEPT !.displayname = value, !.full_user_id = full_user_id]
               ELSE [old EXCEPT !.avatar_url = value, !.full_user_id = full_user_id]
    IN (table \ Rows(table, localpart)) \cup {new}

\* What get_profileinfo returns, or the StoreError it raises, for the lookup
\* result it got: 404 becomes ProfileInfo(None, None), another code is
\* raised again.
ProfileInfoOf(selected) ==
    IF selected.raised = NoRowFound
    THEN [raised |-> 0, info |-> NoProfile]
    ELSE IF selected.raised # 0
    THEN [raised |-> selected.raised, info |-> NoProfile]
    ELSE [raised |-> 0,
          info |-> [display_name |-> selected.row.displayname,
                    avatar_url |-> selected.row.avatar_url]]

\* The history of a localpart with no row.
NeverSet == [exists |-> FALSE, displayname |-> None, avatar_url |-> None]

\* get_profileinfo(user_localpart); storeError is the StoreError with which
\* the lookup fails on its own account, if it does.
get_profileinfo(user_localpart, storeError) ==
    /\ LET selected == IF storeError # 0
                       THEN [simple_select_one(profiles, user_localpart)
                                EXCEPT !.raised = storeError]
                       ELSE simple_select_one(profiles, user_localpart)
           result == ProfileInfoOf(selected)
       IN lastResult' = [op |-> "get_profileinfo", user |-> user_localpart,
                         storeError |-> storeError,
                         raised |-> result.raised, info |-> result.info,
                         expected |-> lastSet[user_localpart]]
    /\ UNCHANGED <<profiles, lastSet>>
    /\ UNCHANGED agentVars

create_profile(user_localpart) ==
    /\ profiles' = simple_insert(profiles, user_localpart, to_string(user_localpart))
    /\ lastSet' = [lastSet EXCEPT ![user_localpart].exists = TRUE]
    /\ lastResult' = [op |-> "create_profile", user |-> user_localpart,
                      storeError |-> 0, raised |-> 0, info |-> NoProfile,
                      expected |-> NeverSet]
    /\ UNCHANGED agentVars

\* set_profile_displayname writing the whole row anew.
set_profile_displayname_WholeRow(user_localpart, new_displayname) ==
    /\ profiles' = (profiles \ Rows(profiles, user_localpart)) \cup
                   {[user_id |-> user_localpart, displayname |-> new_displayname,
                     avatar_url |-> None,
                     full_user_id |-> to_string(user_localpart)]}
    /\ lastSet' = [lastSet EXCEPT ![user_localpart].exists = TRUE,
                                  ![user_localpart].displayname = new_displayname]
    /\ lastResult' = [op |-> "set_profile_displayname", user |-> user_localpart,
                      storeError |-> 0, raised |-> 0, info |-> NoProfile,
                      expected |-> NeverSet]
    /\ UNCHANGED agentVars

set_profile_displayname(user_localpart, new_displayname) ==
    /\ profiles' = simple_upsert(profiles, user_localpart, "displayname",
                                 new_displayname, to_string(user_localpart))
    /\ lastSet' = [lastSet EXCEPT ![user_localpart].exists = TRUE,
                                  ![user_localpart].displayname = new_displayname]
    /\ lastResult' = [op |-> "set_profile_displayname", user |-> user_localpart,
                      storeError |-> 0, raised |-> 0, info |-> NoProfile,
                      expected |-> NeverSet]
    /\ UNCHANGED agentVars

set_profile_avatar_url(user_localpart, new_avatar_url) ==
    /\ profiles' = simple_upsert(profiles, user_localpart, "avatar_url",
                                 new_avatar_url, to_string(user_localpart))
    /\ lastSet' = [lastSet EXCEPT ![user_localpart].exists = TRUE,
                                  ![user_localpart].avatar_url = new_avatar_url]
    /\ lastResult' = [op |-> "set_profile_avatar_url", user |-> user_localpart,
                      storeError |-> 0, raised |-> 0, info |-> NoProfile,
                      expected |-> NeverSet]
    /\ UNCHANGED agentVars

NoCall == [op |-> None, user |-> None, storeError |-> 0, raised |-> 0,
           info |-> NoProfile, expected |-> NeverSet]

ProfileIdle ==
    /\ profiles = {}
    /\ lastSet = [u \in Localparts |-> NeverSet]
    /\ lastResult = NoCall

Init ==
    /\ connectTimeout \in Timeouts
    /\ bindAddress \in BindAddresses
    /\ contextFactory \in Policies
    /\ connections = <<>>
    /\ nextConn = 0
    /\ calls = <<>>
    /\ ProfileIdle

Next ==
    \/ \E raw \in RawURIs : request(raw)
    \/ \E i \in 1..MaxRequests, outcome \in Deliveries, keep \in BOOLEAN :
          deliver(i, outcome, keep)
    \/ \E i \in 1..MaxRequests : dropIdle(i)

Spec == Init /\ [][Next]_vars

\* The profile store on its own, beside an agent that issues no request.
ProfileInit ==
    /\ connectTimeout = <<>>
    /\ bindAddress = None
    /\ contextFactory = {}
    /\ connections = <<>>
    /\ nextConn = 0
    /\ calls = <<>>
    /\ ProfileIdle

ProfileNext ==
    \/ \E u \in Localparts : create_profile(u)
    \/ \E u \in Localparts, n \in DisplayNames : set_profile_displayname(u, n)
    \/ \E u \in Localparts, a \in AvatarUrls : set_profile_avatar_url(u, a)
    \/ \E u \in Localparts, e \in LookupErrors : get_profileinfo(u, e)

ProfileSpec == ProfileInit /\ [][ProfileNext]_vars

(***************************************************************************)
(* Properties of the replication agent (checked under Spec)                *)
(***************************************************************************)
Supported(c) == c.uri.scheme \in {"http", "https"}
Resolved(c) == c.endpoint.kind # "none"
LookupFailed(c) == c.uri.scheme = "https" /\ creatorFails(contextFactory, c.uri.host)
Dispatched(c) == c.executed > 0
\* The TCP endpoint of an endpoint: itself, or the one under the TLS layer.
TCPOf(endpoint) == IF endpoint.kind = "tls" THEN endpoint.wrapped ELSE endpoint
Calls == {calls[i] : i \in 1..Len(calls)}
CallIds == 1..Len(calls)

\* C1: a request whose scheme is neither http nor https returns a Deferred
\* that has failed with SchemeNotSupported carrying that scheme; no endpoint
\* is constructed, the TLS policy is not consulted, the executor is not
\* called and no connection is taken or opened.
C1_UnsupportedSchemeFailsFast ==
    \A c \in Calls :
        ~Supported(c) =>
            /\ c.returned = "deferred"
            /\ c.state = "failed"
            /\ c.error = SchemeNotSupported(c.uri.scheme)
            /\ c.built = 0
            /\ ~Resolved(c)
            /\ c.lookups = <<>>
            /\ c.executed = 0
            /\ c.keys = <<>>
            /\ c.conn = NoConn

C1_Witness ==
    \E c \in Calls : c.uri.scheme = "ftp" /\ c.state = "failed"
                     /\ c.error.scheme = "ftp"

\* C2 (as claimed): the key handed to the executor is (scheme, "host:port")
\* built from the parsed host and port, so that two requests with the same
\* scheme, host and port have the same key however the port was written.
C2_KeyIsSchemeHostPort ==
    /\ \A c \in Calls :
          Dispatched(c) =>
              c.keys = << <<c.uri.scheme, c.uri.host \o ":" \o ToString(c.uri.port)>> >>
    /\ \A c, d \in Calls :
          (/\ Dispatched(c) /\ Dispatched(d)
           /\ c.uri.scheme = d.uri.scheme
           /\ c.uri.host = d.uri.host
           /\ c.uri.port = d.uri.port) => c.keys = d.keys

\* C3: the endpoint returned by endpointForURI is, for http, a plain TCP
\* endpoint to the parsed (host, port) with no TLS policy lookup, and for
\* https a TLS layer over such a TCP endpoint, with the creator the policy
\* gave for (host, port) in its single lookup.
C3_EndpointShapeByScheme ==
    \A c \in Calls :
        Resolved(c) =>
            /\ c.uri.scheme = "http" =>
                  /\ c.endpoint.kind = "tcp"
                  /\ c.endpoint.host = c.uri.host
                  /\ c.endpoint.port = c.uri.port
                  /\ c.lookups = <<>>
            /\ c.uri.scheme = "https" =>
                  /\ c.endpoint.kind = "tls"
                  /\ c.endpoint.wrapped.kind = "tcp"
                  /\ c.endpoint.wrapped.host = c.uri.host
                  /\ c.endpoint.wrapped.port = c.uri.port
                  /\ c.endpoint.creator = creatorForNetloc(c.uri.host, c.uri.port)
                  /\ c.lookups = << <<c.uri.host, c.uri.port>> >>

C3_Witness ==
    /\ \E c \in Calls : c.uri.scheme = "http" /\ c.endpoint.kind = "tcp"
    /\ \E c \in Calls : c.uri.scheme = "https" /\ c.endpoint.kind = "tls"
                        /\ c.uri.port = 443

\* C4 (as claimed): when the TLS policy lookup fails in an https request,
\* request returns a Deferred, and that Deferred has failed with the error
\* of the lookup.
C4_LookupFailureIsFailedDeferred ==
    \A c \in Calls :
        LookupFailed(c) =>
            /\ c.returned = "deferred"
            /\ c.state = "failed"
            /\ c.error = TLSPolicyError

\* C5 (as claimed): every call produces exactly one pool key, and no endpoint
\* exactly when the scheme is unsupported, one endpoint otherwise.
C5_OneKeyPerCall ==
    \A c \in Calls :
        /\ Len(c.keys) = 1
        /\ c.built \in {0, 1}
        /\ c.built = 0 <=> ~Supported(c)

\* C5 (amended): every call computes at most one pool key and constructs at
\* most one endpoint; it constructs none exactly when the scheme is
\* unsupported; it computes a key exactly when endpointForURI returned an
\* endpoint, that is, none when the scheme is unsupported or the TLS policy
\* lookup failed.
C5_AtMostOneKeyPerCall ==
    \A c \in Calls :
        /\ Len(c.keys) <= 1
        /\ c.built \in {0, 1}
        /\ c.built = 0 <=> ~Supported(c)
        /\ Len(c.keys) = 1 <=> Resolved(c)
        /\ Len(c.keys) = 0 <=> (~Supported(c) \/ LookupFailed(c))

C5_Witness ==
    /\ \E c \in Calls : ~Supported(c) /\ c.keys = <<>> /\ c.built = 0
    /\ \E c \in Calls : Supported(c) /\ Len(c.keys) = 1 /\ c.built = 1

\* C6: two requests to different hosts are never served by the same pooled
\* connection (two successive requests to one scheme, host and port can be:
\* C6_Witness).
C6_NoSharingAcrossHosts ==
    \A i, j \in CallIds :
        (/\ calls[i].conn # NoConn
         /\ calls[j].conn # NoConn
         /\ calls[i].uri.host # calls[j].uri.host) => calls[i].conn # calls[j].conn

C6_Witness ==
    \E i, j \in CallIds :
        /\ i < j
        /\ calls[i].state = "response"
        /\ calls[j].state = "response"
        /\ calls[i].uri.scheme = calls[j].uri.scheme
        /\ calls[i].uri.host = calls[j].uri.host
        /\ calls[i].uri.port = calls[j].uri.port
        /\ calls[j].reused
        /\ calls[i].conn = calls[j].conn

\* C7 (as claimed): the endpoints built for an agent that was constructed
\* with a connect timeout, or a bind address, carry that timeout and that
\* address.
C7_EndpointCarriesTimeoutAndBind ==
    \A c \in Calls :
        Resolved(c) =>
            /\ connectTimeout # <<>> => TCPOf(c.endpoint).timeout = connectTimeout[1]
            /\ bindAddress # None => TCPOf(c.endpoint).bindAddress = bindAddress

C9_ExecutorCalledOnce ==
    \A c \in Calls :
        Supported(c) =>
            /\ c.executed = 1
            /\ c.returned = "deferred"
            /\ c.built = 1
            /\ c.state \in {"pending", "response", "failed"}

\* What the caller sees is what the executor's Deferred fired with.
ResultIsExecutors(c) ==
    /\ c.returned = "deferred"
    /\ c.state = "pending" <=> c.fired = None
    /\ c.state = "response" <=> c.fired = "response"
    /\ c.state = "failed" <=> c.fired \in {"ConnectionError", "ProtocolError"}
    /\ c.state = "failed" => c.error = [type |-> c.fired, scheme |-> None]

\* C9 (amended): for every request with a supported scheme whose endpoint
\* is resolved, the executor is called exactly once, with the one endpoint
\* built, and the request's result is the executor's: its response, or its
\* failure unchanged; when the TLS policy lookup fails instead, the executor
\* is not called at all.
C9_ExecutorCalledOnceIfResolved ==
    \A c \in Calls :
        Supported(c) =>
            /\ Resolved(c) =>
                  /\ c.executed = 1
                  /\ c.built = 1
                  /\ c.conn \in 1..nextConn
                  /\ ResultIsExecutors(c)
            /\ ~Resolved(c) =>
                  /\ LookupFailed(c)
                  /\ c.executed = 0
                  /\ c.conn = NoConn
                  /\ c.returned = "raised"

C9_Witness ==
    /\ \E c \in Calls : Supported(c) /\ c.state = "failed"
                        /\ c.fired = "ConnectionError" /\ c.executed = 1
    /\ \E c \in Calls : Supported(c) /\ c.state = "response"

(***************************************************************************)
(* Properties of the profile store (checked under ProfileSpec)             *)
(***************************************************************************)
\* C10: after any sequence of create_profile, set_profile_displayname and
\* set_profile_avatar_url calls the table holds, for each localpart, one row
\* with the display name and avatar URL most recently set for it (None for a
\* field never set) or no row when nothing was written for it, so that each
\* setter changes its own column of its own user's row only; and
\* get_profileinfo returns those two values, (None, None) when there is no
\* row (the lookup's 404), and raises any other StoreError of the lookup.
C10_ProfileIsLastWritten ==
    /\ \A u \in Localparts :
          IF lastSet[u].exists
          THEN /\ Cardinality(Rows(profiles, u)) = 1
               /\ \A r \in Rows(profiles, u) :
                     /\ r.displayname = lastSet[u].displayname
                     /\ r.avatar_url = lastSet[u].avatar_url
          ELSE Rows(profiles, u) = {}
    /\ lastResult.op = "get_profileinfo" =>
          IF lastResult.storeError # 0
          THEN lastResult.raised = lastResult.storeError
          ELSE /\ lastResult.raised = 0
               /\ lastResult.info =
                     [display_name |-> lastResult.expected.displayname,
                      avatar_url |-> lastResult.expected.avatar_url]

C10_Witness ==
    /\ lastResult.op = "get_profileinfo"
    /\ lastResult.user = "alice"
    /\ lastResult.raised = 0
    /\ lastResult.info = [display_name |-> "Al", avatar_url |-> "mxc://example.org/a"]
    /\ \E r \in Rows(profiles, "bob") : r.displayname = "Alice" /\ r.avatar_url = None

====
